---- MODULE Spec2Model ----
(***************************************************************************)
(* Verification model of the ERP system's identifier generation, stock     *)
(* entry fan-out and label template validation.                            *)
(*                                                                         *)
(* Sources: src/server/barcodeUtils.ts, src/server/storage.ts,             *)
(* src/server/index.ts, src/unnamed/part_004 (server/routes.ts) and        *)
(* src/unnamed/part_002 (label designer script).                           *)
(*                                                                         *)
(* Modelling conventions                                                   *)
(*  - A six-character barcode code is represented by its numeric value     *)
(*    (the string is that value zero-padded to six characters).            *)
(*  - A customer code is an arbitrary string and is represented as the     *)
(*    sequence of its ASCII character codes.                               *)
(*  - Reads and writes of data/barcodes.json succeed (loadBarcodes and     *)
(*    saveBarcodes take their try branch) unless an action says otherwise. *)
(***************************************************************************)
EXTENDS Integers, Sequences, FiniteSets, TLC

VARIABLES
    barcodeFile,    \* data/barcodes.json: the sequence of barcode records
    initialCodes,   \* generator session: codes persisted before the session
    returned,       \* generator session: codes returned so far, in order
    pending,        \* generator session: <<code>> returned and not yet persisted, or <<>>
    genError,       \* generator session: the last call threw
    storageKind,    \* customers: "json" (JsonStorage) or "database" (DatabaseStorage)
    customers,      \* customers: the stored customers, a sequence of [id, code]
    nextCustomerId, \* customers: number of ids handed out (randomUUID / gen_random_uuid)
    customerResult, \* customers: outcome of the last storage call
    products,       \* stock: DatabaseStorage.products, product id -> stock
    movements,      \* stock: rows of the stock_movements table, in insert order
    nextMovementId, \* stock: number of movement ids handed out (gen_random_uuid)
    req,            \* stock: per request slot, the route handler's position and locals
    credited,       \* stock: per product, total quantity of the entries answered 201
    submitted,      \* stock: number of requests received by the stock routes
    template,       \* label designer: the template handed to validateTemplate
    validation,     \* label designer: what validateTemplate returned for it
    labelTemplates, \* labels: DatabaseStorage.labelTemplates (data/labels.json), in order
    nextLabelId,    \* labels: number of template ids handed out (tpl_<time>_<random>)
    labelResponse,  \* labels: the last answer of a label route
    currentTemplate,\* label designer: <<currentTemplate>>, or <<>> for null
    designer,       \* label designer: position of saveTemplate, hasUnsavedChanges
    exportedFile,   \* label designer: <<file>> downloaded by exportTemplate, or <<>>
    creating,       \* customers: per call of createCustomer, its position and locals
    drawing         \* generator: position and locals of one call of generateUniqueBarcode

barcodeVars == <<barcodeFile, initialCodes, returned, pending, genError>>

customerVars == <<storageKind, customers, nextCustomerId, customerResult>>

stockVars == <<products, movements, nextMovementId, req, credited, submitted>>

templateVars == <<template, validation>>

labelVars == <<labelTemplates, nextLabelId, labelResponse, currentTemplate, designer>>

vars == <<barcodeVars, customerVars, stockVars, templateVars, labelVars, exportedFile, creating, drawing>>

\* What the actions of one part of the model leave alone
outsideBarcode == <<customerVars, stockVars, templateVars, labelVars, exportedFile, creating, drawing>>
outsideCustomers == <<barcodeVars, stockVars, templateVars, labelVars, exportedFile, creating, drawing>>
outsideStock == <<initialCodes, returned, pending, genError, customerVars, templateVars, labelVars, exportedFile, creating, drawing>>
outsideTemplate == <<barcodeVars, customerVars, stockVars, labelVars, exportedFile, creating, drawing>>
outsideLabels == <<barcodeVars, customerVars, stockVars, templateVars, exportedFile, creating, drawing>>
outsideDesigner == <<barcodeVars, customerVars, stockVars, labelTemplates, nextLabelId, labelResponse, creating, drawing>>
outsideDrawing == <<barcodeVars, customerVars, stockVars, templateVars, labelVars, exportedFile, creating>>
outsideCreate == <<barcodeVars, stockVars, templateVars, labelVars, exportedFile, storageKind, drawing>>

(***************************************************************************)
(* Bounds of the model                                                     *)
(***************************************************************************)
MaxRandomOffset == 0   \* random draws modelled: 100000..100000+MaxRandomOffset, 999999
MaxTime == 1           \* Date.now() % 1000 values modelled: 0..MaxTime
MaxCalls == 3          \* generator session: calls of generateUniqueBarcode
MaxCustomerIds == 3    \* customers: createCustomer calls that store a customer
MaxRequests == 3       \* stock: requests received by the stock routes
MaxElements == 2       \* label designer: elements of a template
MaxLabels == 2         \* labels: templates created
MaxDropped == 1        \* label designer: elements of the template being edited
MaxCreateCalls == 3    \* customers: concurrent calls of JsonStorage.createCustomer
MaxStored == 3         \* barcode store: records in data/barcodes.json

(***************************************************************************)
(* Generic helpers                                                         *)
(***************************************************************************)
Range(s) == {s[i] : i \in 1..Len(s)}

RECURSIVE SumSeq(_)
SumSeq(s) == IF s = <<>> THEN 0 ELSE s[1] + SumSeq(Tail(s))

NoDuplicates(s) == \A i, j \in 1..Len(s) : i # j => s[i] # s[j]

(***************************************************************************)
(* barcodeUtils.ts                                                         *)
(***************************************************************************)
maxAttempts == 1000
maxRetries == 3
CodeWidth == 6

\* Math.floor(100000 + Math.random() * 900000): an integer in 100000..999999
RandomNums == {100000 + i : i \in 0..MaxRandomOffset} \cup {999999}

\* Date.now() % 1000: an integer in 0..999
TimeComponents == 0..MaxTime

\* (randomNum + timeComponent).toString().slice(-6).padStart(6, '0'):
\* the last six decimal digits of the sum
CandidateCode(randomNum, timeComponent) == (randomNum + timeComponent) % (10 ^ CodeWidth)

Candidates == {CandidateCode(r, t) : r \in RandomNums, t \in TimeComponents}

\* loadBarcodes(): the parsed file
loadBarcodes == barcodeFile

\* existingBarcodes.map(b => b.code) as a Set
CodesOf(file) == {file[i].code : i \in 1..Len(file)}

\* One round of the do/while loop (lines 46-57) over the snapshot `existing`.
\* The loop draws a candidate, counts the attempt, throws when the count
\* exceeds maxAttempts and otherwise leaves when the candidate is unused.
\* Every draw is free, so a round can return any unused candidate (on its
\* first draw, if maxAttempts >= 1) and can throw exactly when maxAttempts
\* successive draws can all be used codes.
RoundThrows(existing) == maxAttempts = 0 \/ Candidates \cap existing # {}

\* Mutant: the loop condition existingCodes.has(code) is dropped
RoundReturnsMutant(existing) == IF maxAttempts >= 1 THEN Candidates ELSE {}
RoundReturns(existing) == IF maxAttempts >= 1 THEN Candidates \ existing ELSE {}

\* generateUniqueBarcode(): up to maxRetries rounds, each on a fresh snapshot
\* of the file.  The function is synchronous (the setTimeout of line 67 only
\* schedules an empty callback), so every round sees the same file.  The set
\* of codes it may return, and whether it may throw.
generateUniqueBarcodeReturns(file) ==
    IF maxRetries >= 1 THEN RoundReturns(CodesOf(file)) ELSE {}

generateUniqueBarcodeThrows(file) ==
    maxRetries = 0 \/ RoundThrows(CodesOf(file))

\* The record createBarcodeRecord builds (lines 105-116)
NewBarcode(code, productId, stockMovementId, warehouseId, shelfId, quantity, unit) ==
    [code |-> code, productId |-> productId, stockMovementId |-> stockMovementId,
     warehouseId |-> warehouseId, shelfId |-> shelfId, quantity |-> quantity,
     unit |-> unit, isUsed |-> FALSE]

\* createBarcodeRecord(): load the file, push the record, save the file
createBarcodeRecord(file, code, productId, stockMovementId, warehouseId, shelfId, quantity, unit) ==
    Append(file, NewBarcode(code, productId, stockMovementId, warehouseId, shelfId, quantity, unit))

(***************************************************************************)
(* Generator session: generateUniqueBarcode() calls, each returned code    *)
(* persisted with createBarcodeRecord() before the next call.              *)
(***************************************************************************)
SessionRecord(code) == NewBarcode(code, "p1", "m0", "w1", "none", 1, "adet")

\* No call of generateUniqueBarcode is being followed draw by draw
NotDrawing == [pc |-> "idle", retry |-> 0, attempts |-> 0, code |-> 0, timers |-> 0]

\* Files that may exist before the session: codes minted earlier
InitialFiles ==
    {<<>>, <<SessionRecord(100000)>>, <<SessionRecord(100001), SessionRecord(0)>>,
     <<SessionRecord(123456)>>}

(***************************************************************************)
(* Stock routes: the data they work on                                     *)
(***************************************************************************)
\* Products of DatabaseStorage.products (loaded from data/products.json)
ProductIds == {"p1", "p2"}

\* Concurrent requests in flight
Slots == {"r1", "r2"}

\* null
Null == "null"

\* A request body's quantity: absent, or a number (whole or fractional)
NoQuantity == [given |-> FALSE, value |-> 0, whole |-> TRUE]
Quantity(n) == [given |-> TRUE, value |-> n, whole |-> TRUE]
\* a fractional number between n and n + 1
FractionalQuantity(n) == [given |-> TRUE, value |-> n, whole |-> FALSE]

\* A request body's meters string: absent, not JSON, JSON that is no array,
\* or a JSON array; each item is given by what parseFloat makes of it
NoMeters == [kind |-> "absent", items |-> <<>>]
BadJsonMeters == [kind |-> "invalid", items |-> <<>>]
ObjectMeters == [kind |-> "object", items |-> <<>>]
ArrayMeters(items) == [kind |-> "array", items |-> items]
Num(n) == [nan |-> FALSE, v |-> n]
NaN == [nan |-> TRUE, v |-> 0]
\* a field that is missing: NaN wherever a number is expected
Undefined == [nan |-> TRUE, v |-> 0, undefined |-> TRUE]
\* null: 0 wherever a number is expected
JsonNull == [nan |-> FALSE, v |-> 0, null |-> TRUE]

NoBody ==
    [productId |-> "", warehouseId |-> "", shelfId |-> Null, unit |-> "",
     quantity |-> NoQuantity, meters |-> NoMeters]

\* No template was handed to validateTemplate
NoTemplate == [name |-> <<>>, width |-> NaN, height |-> NaN, elements |-> <<>>]
NotValidated == [done |-> FALSE, isValid |-> FALSE, errors |-> <<>>]

\* The label designer is left alone
TemplateIdle ==
    /\ template = NoTemplate
    /\ validation = NotValidated

\* No label route was called
NoLabelResponse == [status |-> 0, message |-> ""]
DesignerIdle == [pc |-> "idle", id |-> 0, hasUnsavedChanges |-> FALSE]

\* The label routes and the designer are left alone
LabelsIdle ==
    /\ labelTemplates = <<>>
    /\ nextLabelId = 0
    /\ labelResponse = NoLabelResponse
    /\ currentTemplate = <<>>
    /\ designer = DesignerIdle
    /\ exportedFile = <<>>

\* A slot with no request
IdleReq ==
    [pc |-> "idle", route |-> "none", body |-> NoBody, id |-> 0, found |-> FALSE, updatedRow |-> FALSE,
     productStock |-> 0, movementId |-> 0, quantities |-> <<>>, totalQuantity |-> 0,
     newBarcodes |-> <<>>, status |-> 0, errorCode |-> "none"]

\* The stock routes are left alone
StockIdle ==
    /\ products = [p \in ProductIds |-> 0]
    /\ movements = <<>>
    /\ nextMovementId = 0
    /\ req = [s \in Slots |-> IdleReq]
    /\ credited = [p \in ProductIds |-> 0]
    /\ submitted = 0

\* No call of createCustomer is under way
NotCreating == [pc |-> "idle", code |-> <<>>, attempts |-> 0, inUse |-> FALSE]
NoCreateCalls == [c \in 1..MaxCreateCalls |-> NotCreating]

\* The customer store is left alone
CustomersIdle ==
    /\ creating = NoCreateCalls
    /\ storageKind = "json"
    /\ customers = <<>>
    /\ nextCustomerId = 0
    /\ customerResult = "none"

InitBarcode ==
    /\ LabelsIdle
    /\ CustomersIdle
    /\ TemplateIdle
    /\ StockIdle
    /\ drawing = NotDrawing
    /\ barcodeFile \in InitialFiles
    /\ initialCodes = CodesOf(barcodeFile)
    /\ returned = <<>>
    /\ pending = <<>>
    /\ genError = FALSE

GenerateReturns ==
    /\ pending = <<>>
    /\ Len(returned) < MaxCalls
    /\ \E code \in generateUniqueBarcodeReturns(loadBarcodes) :
        /\ pending' = <<code>>
        /\ returned' = Append(returned, code)
    /\ genError' = FALSE
    /\ UNCHANGED <<barcodeFile, initialCodes, outsideBarcode>>

GenerateThrows ==
    /\ pending = <<>>
    /\ generateUniqueBarcodeThrows(loadBarcodes)
    /\ genError' = TRUE
    /\ UNCHANGED <<barcodeFile, initialCodes, returned, pending, outsideBarcode>>

PersistReturned ==
    /\ pending # <<>>
    /\ barcodeFile' = createBarcodeRecord(loadBarcodes, pending[1], "p1", "m0", "w1", "none", 1, "adet")
    /\ pending' = <<>>
    /\ UNCHANGED <<initialCodes, returned, genError, outsideBarcode>>

NextBarcode == GenerateReturns \/ GenerateThrows \/ PersistReturned

SpecBarcode == InitBarcode /\ [][NextBarcode]_vars

IsDigit(c) == c \in 48..57

\* /^\d{6}$/.test(code)
IsSixDigits(code) == Len(code) = 6 /\ \A i \in 1..Len(code) : IsDigit(code[i])

\* parseInt(code, 10) of a string of digits
RECURSIVE parseInt(_)
parseInt(code) ==
    IF code = <<>> THEN 0
    ELSE 10 * parseInt(SubSeq(code, 1, Len(code) - 1)) + (code[Len(code)] - 48)

\* n.toString() of a non-negative integer
RECURSIVE toString(_)
toString(n) == IF n < 10 THEN <<48 + n>> ELSE Append(toString(n \div 10), 48 + (n % 10))

\* s.padStart(width, '0')
RECURSIVE padStart(_, _)
padStart(s, width) == IF Len(s) >= width THEN s ELSE padStart(<<48>> \o s, width)

\* customerCode.trim() === '' for the strings of the model
IsBlank(code) == \A i \in 1..Len(code) : code[i] = 32

AUTO_GENERATE == <<65, 85, 84, 79, 95, 71, 69, 78, 69, 82, 65, 84, 69>>

Max2(a, b) == IF a >= b THEN a ELSE b

\* .reduce((max, current) => Math.max(max, current), start) over a set
MaxOf(S, start) == CHOOSE m \in S \cup {start} : \A x \in S \cup {start} : x <= m

CustomerCodes(cs) == {cs[i].code : i \in 1..Len(cs)}

\* JsonStorage.getNextCustomerCode (lines 315-324)
JsonGetNextCustomerCode(cs) ==
    LET maxCode == MaxOf({parseInt(code) : code \in {c \in CustomerCodes(cs) : IsSixDigits(c)}}, 99999)
        nextCode == Max2(maxCode + 1, 100000)
    IN  padStart(toString(nextCode), 6)

\* Text order of the database: a < b
RECURSIVE TextLess(_, _)
TextLess(a, b) ==
    IF b = <<>> THEN FALSE
    ELSE IF a = <<>> THEN TRUE
    ELSE IF a[1] # b[1] THEN a[1] < b[1]
    ELSE TextLess(Tail(a), Tail(b))

\* select max(code) from customers: the greatest code in text order
\* (<<>> stands for the NULL of an empty table)
SqlMaxCode(cs) ==
    IF cs = <<>> THEN <<>>
    ELSE CHOOSE m \in CustomerCodes(cs) : \A c \in CustomerCodes(cs) : c = m \/ TextLess(c, m)

\* DatabaseStorage.getNextCustomerCode (lines 860-883), the query succeeding
DbGetNextCustomerCode(cs) ==
    LET maxCode == SqlMaxCode(cs)
        numericCode == parseInt(maxCode)
        highestCode == IF maxCode # <<>> /\ IsSixDigits(maxCode) /\ numericCode > 99999
                       THEN numericCode ELSE 99999
        nextCode == Max2(highestCode + 1, 100000)
    IN  padStart(toString(nextCode), 6)

getNextCustomerCode(kind, cs) ==
    IF kind = "json" THEN JsonGetNextCustomerCode(cs) ELSE DbGetNextCustomerCode(cs)

\* getCustomerByCode(code) finds a customer
CodeInUse(cs, code) == code \in CustomerCodes(cs)

\* generateCustomerCode (lines 297-313, 841-858) run without another request
\* in between: every iteration computes the same next code, so the loop
\* returns it when it is unused and otherwise throws after maxAttempts
\* iterations.  <<>> stands for the throw.
generateCustomerCode(kind, cs) ==
    LET code == getNextCustomerCode(kind, cs)
    IN  IF CodeInUse(cs, code) THEN <<>> ELSE code

\* createCustomer asks for a generated code (lines 249-252, 792-795)
WantsGeneratedCode(code) == code = <<>> \/ IsBlank(code) \/ code = AUTO_GENERATE

\* Codes a request may carry: absent or empty, blank, the sentinel, and
\* explicit codes "100005", "100010", "99999", "999999", "AB"
RequestCodes ==
    { <<>>, <<32, 32>>, AUTO_GENERATE,
      <<49, 48, 48, 48, 48, 53>>, <<49, 48, 48, 48, 49, 48>>,
      <<57, 57, 57, 57, 57>>, <<57, 57, 57, 57, 57, 57>>, <<65, 66>> }

CustomerIndex(cs, id) ==
    IF \E i \in 1..Len(cs) : cs[i].id = id
    THEN CHOOSE i \in 1..Len(cs) : cs[i].id = id /\ \A j \in 1..(i - 1) : cs[j].id # id
    ELSE 0

RemoveAt(s, i) == SubSeq(s, 1, i - 1) \o SubSeq(s, i + 1, Len(s))

BarcodesIdle ==
    /\ drawing = NotDrawing
    /\ barcodeFile = <<>>
    /\ initialCodes = {}
    /\ returned = <<>>
    /\ pending = <<>>
    /\ genError = FALSE

InitCustomer ==
    /\ LabelsIdle
    /\ BarcodesIdle
    /\ TemplateIdle
    /\ StockIdle
    /\ storageKind \in {"json", "database"}
    /\ creating = NoCreateCalls
    /\ customers = <<>>
    /\ nextCustomerId = 0
    /\ customerResult = "none"

\* The code createCustomer stores for a request code, <<>> when
\* generateCustomerCode throws
CodeToStore(kind, cs, code) ==
    IF WantsGeneratedCode(code) THEN generateCustomerCode(kind, cs) ELSE code

\* The unique constraint on customers.code (schema.ts line 169) rejects the row
UniqueViolation(kind, cs, code) == kind = "database" /\ CodeInUse(cs, code)

\* POST /api/customers -> storage.createCustomer(req.body)
CreateCustomer(code) ==
    /\ nextCustomerId < MaxCustomerIds
    /\ LET customerCode == CodeToStore(storageKind, customers, code)
       IN  IF customerCode = <<>> \/ UniqueViolation(storageKind, customers, customerCode)
           THEN /\ customerResult' = "error"
                /\ UNCHANGED <<customers, nextCustomerId>>
           ELSE /\ customers' = Append(customers, [id |-> nextCustomerId + 1, code |-> customerCode])
                /\ nextCustomerId' = nextCustomerId + 1
                /\ customerResult' = "created"
    /\ UNCHANGED <<storageKind, outsideCustomers>>

\* PUT /api/customers/:id -> storage.updateCustomer(id, req.body), the body
\* carrying a code
UpdateCustomerCode(id, code) ==
    /\ LET i == CustomerIndex(customers, id)
       IN  IF i = 0 \/ (customers[i].code # code /\ UniqueViolation(storageKind, customers, code))
           THEN /\ customerResult' = "notFound"
                /\ UNCHANGED customers
           ELSE /\ customers' = [customers EXCEPT ![i].code = code]
                /\ customerResult' = "updated"
    /\ UNCHANGED <<storageKind, nextCustomerId, outsideCustomers>>

\* DELETE /api/customers/:id -> storage.deleteCustomer(id)
DeleteCustomer(id) ==
    /\ LET i == CustomerIndex(customers, id)
       IN  IF i = 0
           THEN /\ customerResult' = "notFound"
                /\ UNCHANGED customers
           ELSE /\ customers' = RemoveAt(customers, i)
                /\ customerResult' = "deleted"
    /\ UNCHANGED <<storageKind, nextCustomerId, outsideCustomers>>

NextCustomer ==
    \/ \E code \in RequestCodes : CreateCustomer(code)
    \/ \E id \in 1..MaxCustomerIds, code \in RequestCodes \ {<<>>} : UpdateCustomerCode(id, code)
    \/ \E id \in 1..MaxCustomerIds : DeleteCustomer(id)

SpecCustomer == InitCustomer /\ [][NextCustomer]_vars

SixDigitValues(cs) == {parseInt(code) : code \in {c \in CustomerCodes(cs) : IsSixDigits(c)}}

\* C2: getNextCustomerCode returns max(six-digit customer codes, 99999) + 1,
\* in JsonStorage and in DatabaseStorage; from {100005, 100010} that is
\* 100011 and from no customers 100000.
C2_NextCodeIsMaxPlusOne ==
    getNextCustomerCode(storageKind, customers)
        = toString(MaxOf(SixDigitValues(customers), 99999) + 1)

\* C3: no two stored customers have the same code.
C3_CustomerCodesUnique ==
    \A i, j \in 1..Len(customers) : i # j => customers[i].code # customers[j].code

(***************************************************************************)
(* routes.ts (src/unnamed/part_004): POST /api/stock/entry                 *)
(*                                                                         *)
(* The exported storage is DatabaseStorage.  A handler runs from one await *)
(* to the next without interruption; at an await another request's handler *)
(* may run.  A quantity or length is a number of a fixed sub-unit, so the  *)
(* model's integers stand for the decimals of the requests.                *)
(***************************************************************************)
\* storage.getWarehouses(): data/warehouses.json as loaded at start
Warehouses ==
    { [id |-> "1", hasShelfSystem |-> TRUE, shelves |-> {"A1", "A2"}],
      [id |-> "2", hasShelfSystem |-> FALSE, shelves |-> {}],
      [id |-> "3", hasShelfSystem |-> TRUE, shelves |-> {}] }

FindWarehouse(warehouseId) == {w \in Warehouses : w.id = warehouseId}

\* !shelfId || shelfId.trim() === ''
ShelfMissing(shelfId) == shelfId = Null \/ shelfId \in {"", " "}

\* shelfId is truthy
ShelfGiven(shelfId) == shelfId # Null /\ shelfId # ""

\* shelfId || null
ShelfOrNull(shelfId) == IF ShelfGiven(shelfId) THEN shelfId ELSE Null

\* stockEntryInputSchema.safeParse(req.body) (lines 337-355)
ZodAccepts(body) ==
    /\ body.unit \in {"adet", "metre"}
    /\ body.quantity.given => body.quantity.value > 0 \/ ~body.quantity.whole

\* .map(length => parseFloat(length)).filter(num => !isNaN(num) && num > 0)
RECURSIVE ValidLengthsMutant(_)
ValidLengthsMutant(items) ==
    IF items = <<>> THEN <<>>
    ELSE IF ~items[1].nan
         THEN <<items[1].v>> \o ValidLengthsMutant(Tail(items))
         ELSE ValidLengthsMutant(Tail(items))
RECURSIVE ValidLengths(_)
ValidLengths(items) ==
    IF items = <<>> THEN <<>>
    ELSE IF ~items[1].nan /\ items[1].v > 0
         THEN <<items[1].v>> \o ValidLengths(Tail(items))
         ELSE ValidLengths(Tail(items))

\* Array(qty).fill(1)
PieceQuantitiesMutant(qty) == <<qty>>
PieceQuantities(qty) == [i \in 1..qty |-> 1]

\* const qty = quantity || 0
QtyOf(body) == IF body.quantity.given THEN body.quantity.value ELSE 0

\* The answer of lines 359-457 to a body that passed the schema, "OK" when
\* the handler goes on to create the movement.  "EXCEPTION" is the RangeError
\* of Array(qty) for a fractional qty, answered 500 by the catch of line 507.
EntryRejection(body, productFound) ==
    LET ws == FindWarehouse(body.warehouseId)
        w == CHOOSE x \in ws : TRUE
        hasShelves == w.shelves # {}
        shelfRequired == w.hasShelfSystem /\ hasShelves
    IN  IF ~productFound THEN "PRODUCT_NOT_FOUND"
        ELSE IF ws = {} THEN "WAREHOUSE_NOT_FOUND"
        ELSE IF shelfRequired /\ ShelfMissing(body.shelfId) THEN "SHELF_REQUIRED"
        ELSE IF ShelfGiven(body.shelfId) /\ hasShelves /\ body.shelfId \notin w.shelves
             THEN "SHELF_NOT_FOUND"
        ELSE IF body.unit = "adet"
             THEN IF QtyOf(body) <= 0 /\ body.quantity.whole THEN "INVALID_QUANTITY"
                  ELSE IF ~body.quantity.whole THEN "EXCEPTION"
                  ELSE "OK"
        ELSE IF body.meters.kind = "invalid" THEN "INVALID_METERS_FORMAT"
        ELSE IF body.meters.kind # "array" \/ body.meters.items = <<>> THEN "METERS_REQUIRED"
        ELSE IF ValidLengths(body.meters.items) = <<>> THEN "INVALID_METER_LENGTHS"
        ELSE "OK"

StatusOf(errorCode) ==
    IF errorCode \in {"PRODUCT_NOT_FOUND", "WAREHOUSE_NOT_FOUND"} THEN 404
    ELSE IF errorCode \in {"EXCEPTION", "BARCODE_UPDATE_FAILED", "STOCK_UPDATE_FAILED"} THEN 500
    ELSE 400

\* quantities (lines 417, 440-442)
QuantitiesOf(body) ==
    IF body.unit = "adet" THEN PieceQuantities(QtyOf(body)) ELSE ValidLengths(body.meters.items)

\* totalQuantity (lines 418, 451)
TotalQuantityOf(body) ==
    IF body.unit = "adet" THEN QtyOf(body) ELSE SumSeq(ValidLengths(body.meters.items))

\* The row storage.createStockMovement inserts (lines 460-469)
NewMovement(id, body, totalQuantity) ==
    [id |-> id, productId |-> body.productId, warehouseId |-> body.warehouseId,
     shelfId |-> ShelfOrNull(body.shelfId), type |-> "Giris", quantity |-> totalQuantity,
     unit |-> body.unit, barcodes |-> <<>>]

\* The table after lines 359-469: the movement is inserted only when no
\* check rejected the request
MovementsAfterChecksMutant(rejection, movs, movement) == Append(movs, movement)
MovementsAfterChecks(rejection, movs, movement) ==
    IF rejection = "OK" THEN Append(movs, movement) ELSE movs

\* generateBarcodesForStockMovement (barcodeUtils.ts lines 125-155), which runs
\* without an await: every way the loop can end, as
\* [ok, file (barcodes.json afterwards), codes (of the records created)]
RECURSIVE generateBarcodesForStockMovement(_, _, _, _, _, _, _, _)
generateBarcodesForStockMovement(file, created, productId, stockMovementId, warehouseId, shelfId, unit, quantities) ==
    IF quantities = <<>> THEN {[ok |-> TRUE, file |-> file, codes |-> created]}
    ELSE (IF generateUniqueBarcodeThrows(file)
          THEN {[ok |-> FALSE, file |-> file, codes |-> created]} ELSE {})
         \cup UNION { generateBarcodesForStockMovement(
                          createBarcodeRecord(file, code, productId, stockMovementId,
                                              warehouseId, shelfId, quantities[1], unit),
                          Append(created, code), productId, stockMovementId, warehouseId,
                          shelfId, unit, Tail(quantities))
                      : code \in generateUniqueBarcodeReturns(file) }

MovementIndex(movs, id) ==
    IF \E i \in 1..Len(movs) : movs[i].id = id
    THEN CHOOSE i \in 1..Len(movs) : movs[i].id = id
    ELSE 0

\* DatabaseStorage.updateStockMovementBarcodes (storage.ts lines 715-727)
updateStockMovementBarcodes(movs, id, codes) ==
    LET i == MovementIndex(movs, id)
    IN  IF i = 0 THEN movs ELSE [movs EXCEPT ![i].barcodes = codes]

\* Math.max(0, product.stock + stockChange) (storage.ts line 686)
NewStock(stock, stockChange) == Max2(0, stock + stockChange)

\* Request bodies of the model: valid piece and length entries, and one body
\* for each way of being rejected
Body(productId, warehouseId, shelfId, unit, quantity, meters) ==
    [productId |-> productId, warehouseId |-> warehouseId, shelfId |-> shelfId,
     unit |-> unit, quantity |-> quantity, meters |-> meters]

ValidBodies ==
    { Body("p1", "1", "A1", "adet", Quantity(1), NoMeters),
      Body("p1", "2", Null, "adet", Quantity(2), NoMeters),
      Body("p2", "3", "Z9", "metre", NoQuantity, ArrayMeters(<<Num(4), NaN, Num(0), Num(2)>>)) }

RejectedBodies ==
    { Body("p1", "1", "A1", "kg", Quantity(1), NoMeters),
      Body("p1", "1", "A1", "adet", Quantity(0), NoMeters),
      Body("p9", "1", "A1", "adet", Quantity(1), NoMeters),
      Body("p1", "9", "A1", "adet", Quantity(1), NoMeters),
      Body("p1", "1", Null, "adet", Quantity(1), NoMeters),
      Body("p1", "1", " ", "adet", Quantity(1), NoMeters),
      Body("p1", "1", "Z9", "adet", Quantity(1), NoMeters),
      Body("p1", "2", Null, "adet", NoQuantity, NoMeters),
      Body("p1", "2", Null, "adet", FractionalQuantity(2), NoMeters),
      Body("p1", "2", Null, "metre", NoQuantity, NoMeters),
      Body("p1", "2", Null, "metre", NoQuantity, BadJsonMeters),
      Body("p1", "2", Null, "metre", NoQuantity, ObjectMeters),
      Body("p1", "2", Null, "metre", NoQuantity, ArrayMeters(<<>>)),
      Body("p1", "2", Null, "metre", NoQuantity, ArrayMeters(<<Num(0), NaN, Num(-2)>>)) }

EntryBodies == ValidBodies \cup RejectedBodies

\* A slot takes the next request once its last one is answered
Free(s) == req[s].pc \in {"idle", "done"} /\ submitted < MaxRequests

\* The request is answered and its locals are gone: what stays is the answer,
\* the movement the request created and, for a 201, the entry it reports
Answer(r, status, errorCode) ==
    [IdleReq EXCEPT !.pc = "done", !.route = r.route, !.status = status,
                    !.errorCode = errorCode, !.movementId = r.movementId,
                    !.body = IF status = 201 THEN r.body ELSE NoBody]

\* Lines 334-360: parse the body, answer 400 on a schema error, else call
\* storage.getProduct(productId) and await it
SubmitEntry(s, body) ==
    /\ Free(s)
    /\ LET r == [IdleReq EXCEPT !.route = "entry", !.body = body]
       IN  IF ~ZodAccepts(body)
           THEN req' = [req EXCEPT ![s] = Answer(r, 400, "VALIDATION_FAILED")]
           ELSE req' = [req EXCEPT ![s] = [r EXCEPT !.pc = "product",
                                                    !.found = body.productId \in ProductIds]]
    /\ submitted' = submitted + 1
    /\ UNCHANGED <<products, movements, nextMovementId, credited, barcodeFile, outsideStock>>

\* Lines 361-469: the checks, the fan-out list and storage.createStockMovement
EntryValidate(s) ==
    /\ req[s].pc = "product"
    /\ LET body == req[s].body
           rejection == EntryRejection(body, req[s].found)
           id == nextMovementId + 1
       IN  /\ movements' = MovementsAfterChecks(rejection, movements,
                                                NewMovement(id, body, TotalQuantityOf(body)))
           /\ IF rejection = "OK"
              THEN /\ nextMovementId' = id
                   /\ req' = [req EXCEPT ![s] = [@ EXCEPT !.pc = "created", !.movementId = id,
                                                           !.quantities = QuantitiesOf(body),
                                                           !.totalQuantity = TotalQuantityOf(body)]]
              ELSE /\ nextMovementId' = nextMovementId
                   /\ req' = [req EXCEPT ![s] = Answer(@, StatusOf(rejection), rejection)]
    /\ UNCHANGED <<products, credited, barcodeFile, submitted, outsideStock>>

\* Lines 471-483: mint the barcodes and call updateStockMovementBarcodes; a
\* throw of generateUniqueBarcode reaches the catch of line 507
EntryMint(s) ==
    /\ req[s].pc = "created"
    /\ LET r == req[s]
       IN  \E out \in generateBarcodesForStockMovement(loadBarcodes, <<>>, r.body.productId,
                          r.movementId, r.body.warehouseId, ShelfOrNull(r.body.shelfId),
                          r.body.unit, r.quantities) :
              /\ barcodeFile' = out.file
              /\ IF out.ok
                 THEN /\ movements' = updateStockMovementBarcodes(movements, r.movementId, out.codes)
                      /\ req' = [req EXCEPT ![s] = [@ EXCEPT !.pc = "barcodesUpdated",
                                     !.updatedRow = MovementIndex(movements, r.movementId) # 0]]
                 ELSE /\ movements' = movements
                      /\ req' = [req EXCEPT ![s] = Answer(@, 500, "EXCEPTION")]
    /\ UNCHANGED <<products, nextMovementId, credited, submitted, outsideStock>>

\* Lines 484-492 and storage.ts lines 682-684: updateProductStock reads the
\* product and awaits
EntryStockRead(s) ==
    /\ req[s].pc = "barcodesUpdated"
    /\ LET r == req[s]
       IN  req' = [req EXCEPT ![s] =
                 IF ~r.updatedRow THEN Answer(r, 500, "BARCODE_UPDATE_FAILED")
                 ELSE IF r.body.productId \notin ProductIds THEN Answer(r, 500, "STOCK_UPDATE_FAILED")
                 ELSE [r EXCEPT !.pc = "stockRead", !.productStock = products[r.body.productId]]]
    /\ UNCHANGED <<products, movements, nextMovementId, credited, barcodeFile, submitted, outsideStock>>

\* storage.ts lines 686-687 and routes lines 493-505: write the new stock
\* computed from the product read before the await, answer 201
EntryStockWrite(s) ==
    /\ req[s].pc = "stockRead"
    /\ LET r == req[s]
           p == r.body.productId
       IN  /\ products' = [products EXCEPT ![p] = NewStock(r.productStock, r.totalQuantity)]
           /\ credited' = [credited EXCEPT ![p] = @ + r.totalQuantity]
    /\ req' = [req EXCEPT ![s] = Answer(@, 201, "none")]
    /\ UNCHANGED <<movements, nextMovementId, barcodeFile, submitted, outsideStock>>

(***************************************************************************)
(* routes.ts: PUT and DELETE /api/stock/movements/:id                      *)
(***************************************************************************)
\* The methods of DatabaseStorage that the stock routes call (storage.ts
\* lines 548-1117); the class, like IStorage, has no saveStockMovements
DatabaseStorageMethods ==
    {"getProduct", "getWarehouses", "createStockMovement", "getStockMovements",
     "updateStockMovementBarcodes", "updateProductStock"}

\* Calling storage.saveStockMovements(...) throws a TypeError
SaveStockMovementsThrows == "saveStockMovements" \notin DatabaseStorageMethods

MovementIdsAsked == 1..MaxRequests

\* Lines 655-661 / 720-725: call storage.getStockMovements() and await it
SubmitUpdate(s, id, quantity) ==
    /\ Free(s)
    /\ req' = [req EXCEPT ![s] = [IdleReq EXCEPT !.pc = "updateRead", !.route = "update",
                 !.id = id, !.totalQuantity = quantity, !.found = MovementIndex(movements, id) # 0]]
    /\ submitted' = submitted + 1
    /\ UNCHANGED <<products, movements, nextMovementId, credited, barcodeFile, outsideStock>>

\* Lines 689 and 693: Array(n).fill(0).map(() => generateUniqueBarcode()),
\* nothing being persisted between the calls: the lists it can produce
MintedForUpdate(file, n) == [1..n -> generateUniqueBarcodeReturns(file)]

\* Lines 662-716: 404 when the movement is not in the list read, 400 on a
\* quantity <= 0; otherwise the handler changes its own copy of the list,
\* draws the new codes (generateUniqueBarcode may throw), writes them onto
\* its copy of the movement (newBarcodes) and calls
\* storage.saveStockMovements, which throws: the catch of line 713 answers
\* 500 and nothing was stored
UpdateFinish(s) ==
    /\ req[s].pc = "updateRead"
    /\ LET r == req[s]
       IN  \/ /\ ~r.found
              /\ req' = [req EXCEPT ![s] = Answer(r, 404, "NOT_FOUND")]
           \/ /\ r.found /\ r.totalQuantity <= 0
              /\ req' = [req EXCEPT ![s] = Answer(r, 400, "INVALID_QUANTITY")]
           \/ /\ r.found /\ r.totalQuantity > 0
              /\ generateUniqueBarcodeThrows(loadBarcodes)
              /\ req' = [req EXCEPT ![s] = Answer(r, 500, "EXCEPTION")]
           \/ /\ r.found /\ r.totalQuantity > 0
              /\ \E codes \in MintedForUpdate(loadBarcodes, r.totalQuantity) :
                    req' = [req EXCEPT ![s] =
                              [Answer(r, IF SaveStockMovementsThrows THEN 500 ELSE 200,
                                      IF SaveStockMovementsThrows THEN "EXCEPTION" ELSE "none")
                               EXCEPT !.newBarcodes = codes]]
    /\ UNCHANGED <<products, movements, nextMovementId, credited, barcodeFile, submitted, outsideStock>>

SubmitDelete(s, id) ==
    /\ Free(s)
    /\ req' = [req EXCEPT ![s] = [IdleReq EXCEPT !.pc = "deleteRead", !.route = "delete",
                 !.id = id, !.found = MovementIndex(movements, id) # 0]]
    /\ submitted' = submitted + 1
    /\ UNCHANGED <<products, movements, nextMovementId, credited, barcodeFile, outsideStock>>

\* Lines 726-751: 404 when the movement is not in the list read; otherwise
\* the handler splices its own copy of the list and calls
\* storage.saveStockMovements, which throws: 500, nothing was written
DeleteFinish(s) ==
    /\ req[s].pc = "deleteRead"
    /\ req' = [req EXCEPT ![s] =
                 IF ~@.found THEN Answer(@, 404, "NOT_FOUND")
                 ELSE IF SaveStockMovementsThrows THEN Answer(@, 500, "EXCEPTION")
                 ELSE Answer(@, 200, "none")]
    /\ UNCHANGED <<products, movements, nextMovementId, credited, barcodeFile, submitted, outsideStock>>

InitStock ==
    /\ LabelsIdle
    /\ BarcodesIdle
    /\ TemplateIdle
    /\ CustomersIdle
    /\ StockIdle

NextStock ==
    \/ \E s \in Slots, body \in EntryBodies : SubmitEntry(s, body)
    \/ \E s \in Slots : EntryValidate(s)
    \/ \E s \in Slots : EntryMint(s)
    \/ \E s \in Slots : EntryStockRead(s)
    \/ \E s \in Slots : EntryStockWrite(s)
    \/ \E s \in Slots, id \in MovementIdsAsked, quantity \in 0..2 : SubmitUpdate(s, id, quantity)
    \/ \E s \in Slots : UpdateFinish(s)
    \/ \E s \in Slots, id \in MovementIdsAsked : SubmitDelete(s, id)
    \/ \E s \in Slots : DeleteFinish(s)

SpecStock == InitStock /\ [][NextStock]_vars

\* getBarcodesByStockMovement (barcodeUtils.ts lines 189-192)
getBarcodesByStockMovement(file, stockMovementId) ==
    SelectSeq(file, LAMBDA b : b.stockMovementId = stockMovementId)

\* The entry of slot s has minted its barcodes and was not answered an error
EntryMinted(s) ==
    /\ req[s].route = "entry"
    /\ \/ req[s].pc \in {"barcodesUpdated", "stockRead"}
       \/ req[s].pc = "done" /\ req[s].status = 201

\* No request is between its first step and its answer
Quiescent == \A s \in Slots : req[s].pc \in {"idle", "done"}

\* C4: a piece entry of quantity N that minted its barcodes has exactly N
\* barcode records, each of quantity 1 and each naming the new movement, whose
\* codes are the movement's barcode list, and the movement's quantity is N.
C4_PieceEntryFanOut ==
    \A s \in Slots :
        (EntryMinted(s) /\ req[s].body.unit = "adet") =>
            LET N == req[s].body.quantity.value
                records == getBarcodesByStockMovement(barcodeFile, req[s].movementId)
                m == MovementIndex(movements, req[s].movementId)
            IN  /\ Len(records) = N
                /\ \A i \in 1..Len(records) : records[i].quantity = 1
                /\ m # 0
                /\ movements[m].quantity = N
                /\ movements[m].barcodes = [i \in 1..Len(records) |-> records[i].code]

C4_Witness ==
    \E s \in Slots :
        /\ EntryMinted(s) /\ req[s].pc = "done"
        /\ req[s].body.unit = "adet" /\ req[s].body.quantity.value = 2
        /\ Len(getBarcodesByStockMovement(barcodeFile, req[s].movementId)) = 2

C6_BarcodesMatchMovements ==
    Quiescent =>
        /\ \A i \in 1..Len(barcodeFile) :
               MovementIndex(movements, barcodeFile[i].stockMovementId) # 0
        /\ \A m \in 1..Len(movements) :
               LET records == getBarcodesByStockMovement(barcodeFile, movements[m].id)
               IN  SumSeq([i \in 1..Len(records) |-> records[i].quantity]) = movements[m].quantity

\* C7: once an entry whose minting failed is answered, its movement and its
\* barcode records are not stored.
C7_MintFailureLeavesNothing ==
    \A s \in Slots :
        (/\ req[s].pc = "done" /\ req[s].route = "entry"
         /\ req[s].errorCode = "EXCEPTION" /\ req[s].movementId # 0) =>
            /\ MovementIndex(movements, req[s].movementId) = 0
            /\ getBarcodesByStockMovement(barcodeFile, req[s].movementId) = <<>>

\* C8: a step of an entry that validation rejects (unknown product or
\* warehouse, shelf missing or unknown, invalid quantity, invalid length list)
\* leaves the movements, the barcode records and every product's stock as
\* they were.
C8_RejectionChangesNothing ==
    [][\A s \in Slots :
           (/\ req'[s] # req[s]
            /\ req'[s].route = "entry"
            /\ \/ /\ req'[s].pc = "done"
                  /\ req'[s].errorCode \in
                       {"VALIDATION_FAILED", "PRODUCT_NOT_FOUND", "WAREHOUSE_NOT_FOUND",
                        "SHELF_REQUIRED", "SHELF_NOT_FOUND", "INVALID_QUANTITY",
                        "METERS_REQUIRED", "INVALID_METERS_FORMAT", "INVALID_METER_LENGTHS"}
               \/ /\ req'[s].pc = "product"
                  /\ EntryRejection(req'[s].body, req'[s].found) \notin {"OK", "EXCEPTION"})
           => UNCHANGED <<movements, barcodeFile, products>>]_vars

C8_Witness ==
    /\ movements # <<>> /\ barcodeFile # <<>>
    /\ req["r1"].pc = "done" /\ req["r1"].errorCode = "SHELF_NOT_FOUND"
    /\ req["r2"].pc = "done" /\ req["r2"].errorCode = "INVALID_METER_LENGTHS"

\* C9: between requests, every product's stock is its initial stock (0) plus
\* the total quantities of the entries answered 201 for it.
C9_NoLostIncrement ==
    Quiescent => \A p \in ProductIds : products[p] = credited[p]

(***************************************************************************)
(* Label designer script (src/unnamed/part_002): validateTemplate          *)
(*                                                                         *)
(* A number field of a template holds Num(n) or NaN; NaN also stands for a *)
(* missing field, which every operation of validateTemplate converts to    *)
(* NaN.  A name is a sequence of character codes; a type or field is a     *)
(* string, "" when missing.                                                *)
(***************************************************************************)
\* !value for a number field
Falsy(value) == value.nan \/ value.v = 0

\* a < b and a > b on number fields: false when either is NaN
JsLess(a, b) == ~a.nan /\ ~b.nan /\ a.v < b.v
JsGreater(a, b) == ~a.nan /\ ~b.nan /\ a.v > b.v

\* a <= b
JsAtMost(a, b) == ~a.nan /\ ~b.nan /\ a.v <= b.v

\* a + b
JsAdd(a, b) == IF a.nan \/ b.nan THEN NaN ELSE Num(a.v + b.v)

\* element.x + element.width > template.width (lines 2458, 2462)
ExtendsBeyondMutant(start, size, limit) == ~JsLess(JsAdd(start, size), limit)
ExtendsBeyond(start, size, limit) == JsGreater(JsAdd(start, size), limit)

\* if (condition) errors.push(message)
PushIf(condition, index, message) ==
    IF condition THEN <<[element |-> index, message |-> message]>> ELSE <<>>

\* The body of the forEach (lines 2441-2465) for the element at index
\* (1-based, as in the messages)
ElementErrors(t, index) ==
    LET element == t.elements[index]
    IN  PushIf(element.type = "", index, "Type is required")
        \o PushIf(element.field = "", index, "Field is required")
        \o PushIf(JsLess(element.x, Num(0)) \/ JsLess(element.y, Num(0)), index,
                  "Position cannot be negative")
        \o PushIf(JsAtMost(element.width, Num(0)) \/ JsAtMost(element.height, Num(0)), index,
                  "Size must be positive")
        \o PushIf(ExtendsBeyond(element.x, element.width, t.width), index,
                  "Extends beyond template width")
        \o PushIf(ExtendsBeyond(element.y, element.height, t.height), index,
                  "Extends beyond template height")

RECURSIVE ElementsErrors(_, _)
ElementsErrors(t, index) ==
    IF index > Len(t.elements) THEN <<>>
    ELSE ElementErrors(t, index) \o ElementsErrors(t, index + 1)

\* validateTemplate (lines 2416-2473); element 0 marks a message about the
\* template itself
validateTemplate(t) ==
    LET errors ==
            PushIf(t.name = <<>> \/ IsBlank(t.name), 0, "Template name is required")
            \o PushIf(Len(t.name) > 100, 0, "Template name must be less than 100 characters")
            \o PushIf(Falsy(t.width) \/ JsLess(t.width, Num(10)) \/ JsGreater(t.width, Num(500)),
                      0, "Template width must be between 10mm and 500mm")
            \o PushIf(Falsy(t.height) \/ JsLess(t.height, Num(10)) \/ JsGreater(t.height, Num(500)),
                      0, "Template height must be between 10mm and 500mm")
            \o PushIf(t.elements = <<>>, 0, "Template must have at least one element")
            \o ElementsErrors(t, 1)
    IN  [done |-> TRUE, isValid |-> errors = <<>>, errors |-> errors]

\* Templates of the model: the 60 x 40 label of the designer with elements on,
\* inside and beyond its right and bottom edges
Element(type, x, y, width, height) ==
    [type |-> type, field |-> "name", x |-> x, y |-> y, width |-> width, height |-> height]

ModelElements ==
    { Element(type, x, y, width, Num(10)) :
        type \in {"text", ""}, x \in {Num(0), Num(50), Num(55), NaN},
        y \in {Num(0), Num(30), Num(35)}, width \in {Num(10), Num(0)} }

ElementLists == UNION { [1..n -> ModelElements] : n \in 0..MaxElements }

ModelTemplates ==
    { [name |-> name, width |-> width, height |-> Num(40), elements |-> elements] :
        name \in {<<69, 116, 105, 107, 101, 116>>, <<>>}, width \in {Num(60), NaN},
        elements \in ElementLists }

InitTemplate ==
    /\ LabelsIdle
    /\ BarcodesIdle
    /\ CustomersIdle
    /\ StockIdle
    /\ template \in ModelTemplates
    /\ validation = NotValidated

\* saveTemplate (line 1493) and importTemplate (line 1841) validate the
\* template they are about to use
Validate ==
    /\ ~validation.done
    /\ validation' = validateTemplate(template)
    /\ UNCHANGED <<template, outsideTemplate>>

NextTemplate == Validate

SpecTemplate == InitTemplate /\ [][NextTemplate]_vars

\* C10: for an element of a validated template with numeric x, y, width and
\* height on a template of numeric width and height, the "Extends beyond
\* template width" error is reported exactly when x + width > template.width
\* and the "Extends beyond template height" error exactly when
\* y + height > template.height; x + width = template.width is no error.
C10_BoundsErrorsExact ==
    validation.done =>
        \A i \in 1..Len(template.elements) :
            LET e == template.elements[i]
                reported(message) ==
                    \E k \in 1..Len(validation.errors) :
                        validation.errors[k] = [element |-> i, message |-> message]
            IN  /\ (~e.x.nan /\ ~e.width.nan /\ ~template.width.nan) =>
                       (reported("Extends beyond template width")
                            <=> e.x.v + e.width.v > template.width.v)
                /\ (~e.y.nan /\ ~e.height.nan /\ ~template.height.nan) =>
                       (reported("Extends beyond template height")
                            <=> e.y.v + e.height.v > template.height.v)

C10_Witness ==
    /\ validation.done /\ validation.isValid
    /\ Len(template.elements) = 2
    /\ template.width = Num(60) /\ template.height = Num(40)
    /\ template.elements[1].x = Num(50) /\ template.elements[1].width = Num(10)
    /\ template.elements[2].y = Num(30) /\ template.elements[2].height = Num(10)

(***************************************************************************)
(* Label templates: DatabaseStorage (storage.ts lines 1043-1116) and the   *)
(* label routes (src/unnamed/part_004 lines 805-905)                       *)
(*                                                                         *)
(* A stored template is [id, name, width, height, elements, isDefault]; a  *)
(* request body is a template without id, and for PUT the set of fields it *)
(* carries.  Ids are fresh: the n-th template created has id n.            *)
(***************************************************************************)
LabelFields == {"name", "width", "height", "elements", "isDefault"}

LabelBody(name, width, height, elements, isDefault) ==
    [name |-> name, width |-> width, height |-> height, elements |-> elements,
     isDefault |-> isDefault]

\* labelTemplates.findIndex(template => template.id === id), 0 for -1
LabelIndex(ts, id) ==
    IF \E i \in 1..Len(ts) : ts[i].id = id
    THEN CHOOSE i \in 1..Len(ts) : ts[i].id = id
    ELSE 0

\* createLabelTemplate (lines 1047-1062): { ...template, id, isDefault }
createLabelTemplate(ts, id, body) ==
    Append(ts, [id |-> id, name |-> body.name, width |-> body.width, height |-> body.height,
                elements |-> body.elements, isDefault |-> body.isDefault])

\* { ...labelTemplates[templateIndex], ...updateData }
MergeTemplate(t, fields, body) ==
    [f \in DOMAIN t |-> IF f \in fields THEN body[f] ELSE t[f]]

\* updateLabelTemplate (lines 1064-1078), for an id that is stored
updateLabelTemplate(ts, id, fields, body) ==
    [ts EXCEPT ![LabelIndex(ts, id)] = MergeTemplate(@, fields, body)]

\* deleteLabelTemplate (lines 1080-1093): the value returned
deleteLabelTemplateReturns(ts, id) ==
    LabelIndex(ts, id) # 0 /\ ~ts[LabelIndex(ts, id)].isDefault

\* deleteLabelTemplate: the collection afterwards
deleteLabelTemplate(ts, id) ==
    IF deleteLabelTemplateReturns(ts, id) THEN RemoveAt(ts, LabelIndex(ts, id)) ELSE ts

\* setDefaultLabelTemplate (lines 1095-1111), for an id that is stored
setDefaultLabelTemplateMutant(ts, id) ==
    [ts EXCEPT ![LabelIndex(ts, id)].isDefault = TRUE]
setDefaultLabelTemplate(ts, id) ==
    [i \in 1..Len(ts) |-> [ts[i] EXCEPT !.isDefault = (ts[i].id = id)]]

Defaults(ts) == {i \in 1..Len(ts) : ts[i].isDefault}

\* res.status(status).json({ message })
LabelAnswer(status, message) == [status |-> status, message |-> message]

\* Elements and bodies of the model: inside the 60 x 40 label, beyond its
\* right edge, and no element at all
Etiket == <<69, 116, 105, 107, 101, 116>>
InsideElement == Element("text", Num(10), Num(10), Num(20), Num(20))

LabelBodies ==
    { LabelBody(Etiket, Num(60), Num(40), <<InsideElement>>, FALSE),
      LabelBody(Etiket, Num(60), Num(40), <<InsideElement>>, TRUE),
      LabelBody(Etiket, Num(60), Num(40), <<>>, FALSE),
      LabelBody(<<>>, Num(0), Num(40), <<InsideElement>>, FALSE) }

LabelPatches == {LabelFields, {"isDefault"}}

LabelIdsAsked == 1..MaxLabels

\* POST /api/labels (part_004 lines 831-847)
ApiCreateLabel(body) ==
    /\ IF body.name = <<>> \/ Falsy(body.width) \/ Falsy(body.height)
       THEN /\ labelResponse' = LabelAnswer(400, "Name, width and height are required")
            /\ UNCHANGED <<labelTemplates, nextLabelId>>
       ELSE /\ nextLabelId < MaxLabels
            /\ nextLabelId' = nextLabelId + 1
            /\ labelTemplates' = createLabelTemplate(labelTemplates, nextLabelId + 1, body)
            /\ labelResponse' = LabelAnswer(201, "")
    /\ UNCHANGED <<currentTemplate, designer, outsideLabels>>

\* PUT /api/labels/:id (lines 849-863)
ApiUpdateLabel(id, fields, body) ==
    /\ IF LabelIndex(labelTemplates, id) = 0
       THEN /\ labelResponse' = LabelAnswer(404, "Label template not found")
            /\ UNCHANGED labelTemplates
       ELSE /\ labelTemplates' = updateLabelTemplate(labelTemplates, id, fields, body)
            /\ labelResponse' = LabelAnswer(200, "")
    /\ UNCHANGED <<nextLabelId, currentTemplate, designer, outsideLabels>>

\* DELETE /api/labels/:id (lines 866-879)
ApiDeleteLabel(id) ==
    /\ labelTemplates' = deleteLabelTemplate(labelTemplates, id)
    /\ labelResponse' =
           IF deleteLabelTemplateReturns(labelTemplates, id)
           THEN LabelAnswer(200, "Label template deleted successfully")
           ELSE LabelAnswer(404, "Label template not found")
    /\ UNCHANGED <<nextLabelId, currentTemplate, designer, outsideLabels>>

\* POST /api/labels/:id/default (lines 882-895)
ApiSetDefaultLabel(id) ==
    /\ IF LabelIndex(labelTemplates, id) = 0
       THEN /\ labelResponse' = LabelAnswer(404, "Label template not found")
            /\ UNCHANGED labelTemplates
       ELSE /\ labelTemplates' = setDefaultLabelTemplate(labelTemplates, id)
            /\ labelResponse' = LabelAnswer(200, "Default template set successfully")
    /\ UNCHANGED <<nextLabelId, currentTemplate, designer, outsideLabels>>

(***************************************************************************)
(* Label designer script (src/unnamed/part_002): the template being edited *)
(*                                                                         *)
(* currentTemplate has id 0 while the server gave it none.  The width and  *)
(* height fields of the form follow currentTemplate (input listeners,      *)
(* lines 1138-1156) and the name field is taken as left unedited.  A step  *)
(* of the designer that calls a label route contains the route's handler:  *)
(* what the script does before and after the call touches the designer's   *)
(* own state only.                                                         *)
(***************************************************************************)
NewTemplateName == <<78, 101, 119, 32, 84, 101, 109, 112, 108, 97, 116, 101>>
CopySuffix == <<32, 40, 67, 111, 112, 121, 41>>
ImportedSuffix == <<32, 40, 73, 109, 112, 111, 114, 116, 101, 100, 41>>

\* String.prototype.trim
RECURSIVE TrimStart(_)
TrimStart(name) ==
    IF name # <<>> /\ name[1] = 32 THEN TrimStart(Tail(name)) ELSE name
RECURSIVE TrimEnd(_)
TrimEnd(name) ==
    IF name # <<>> /\ name[Len(name)] = 32 THEN TrimEnd(SubSeq(name, 1, Len(name) - 1)) ELSE name
Trim(name) == TrimEnd(TrimStart(name))

\* parseInt(document.getElementById('templateWidth').value) || fallback
FieldOr(value, fallback) == IF Falsy(value) THEN fallback ELSE value

\* createNewTemplate (lines 1270-1277)
NewTemplate ==
    [id |-> 0, name |-> NewTemplateName, width |-> Num(60), height |-> Num(40),
     elements |-> <<>>, isDefault |-> FALSE]

\* createNewElement (lines 653-691) for a text field
createNewElement(x, y) == Element("text", Num(Max2(0, x)), Num(Max2(0, y)), Num(30), Num(8))

BodyOf(t) == LabelBody(t.name, t.width, t.height, t.elements, t.isDefault)

Changed == [designer EXCEPT !.hasUnsavedChanges = TRUE]

\* createNewTemplate
DesignerNew ==
    /\ designer.pc = "idle"
    /\ currentTemplate' = <<NewTemplate>>
    /\ UNCHANGED <<labelTemplates, nextLabelId, labelResponse, designer, outsideLabels>>

\* loadTemplate (lines 429-454): GET /api/labels/:id, then renderTemplate
DesignerLoad(id) ==
    /\ designer.pc = "idle"
    /\ LabelIndex(labelTemplates, id) # 0
    /\ currentTemplate' = <<labelTemplates[LabelIndex(labelTemplates, id)]>>
    /\ designer' = Changed
    /\ UNCHANGED <<labelTemplates, nextLabelId, labelResponse, outsideLabels>>

\* handleDrop (lines 602-650) at the snapped position (x, y)
DesignerDrop(x, y) ==
    /\ designer.pc = "idle"
    /\ LET t == IF currentTemplate = <<>> THEN NewTemplate ELSE currentTemplate[1]
       IN  /\ Len(t.elements) < MaxDropped
           /\ currentTemplate' = <<[t EXCEPT !.elements = Append(@, createNewElement(x, y))]>>
    /\ designer' = Changed
    /\ UNCHANGED <<labelTemplates, nextLabelId, labelResponse, outsideLabels>>

\* deleteSelectedElement (lines 1880-1913) with the element at index selected
DesignerDeleteElement(index) ==
    /\ designer.pc = "idle"
    /\ currentTemplate # <<>>
    /\ index \in 1..Len(currentTemplate[1].elements)
    /\ currentTemplate' = <<[currentTemplate[1] EXCEPT !.elements = RemoveAt(@, index)]>>
    /\ designer' = Changed
    /\ UNCHANGED <<labelTemplates, nextLabelId, labelResponse, outsideLabels>>

\* saveTemplate (lines 1483-1541) up to the answer of PUT or POST /api/labels:
\* nothing is sent when validateTemplate finds an error
DesignerSave(modalTemplateName, setAsDefault) ==
    /\ designer.pc = "idle"
    /\ currentTemplate # <<>>
    /\ LET t == currentTemplate[1]
           width == FieldOr(t.width, Num(60))
           height == FieldOr(t.height, Num(40))
           checked == [name |-> Trim(modalTemplateName), width |-> width, height |-> height,
                       elements |-> t.elements]
           sent == [t EXCEPT !.name = Trim(modalTemplateName), !.width = width,
                             !.height = height, !.isDefault = (setAsDefault \/ @)]
           newId == nextLabelId + 1
       IN  IF ~validateTemplate(checked).isValid
           THEN UNCHANGED <<labelTemplates, nextLabelId, labelResponse, currentTemplate, designer>>
           ELSE IF sent.id # 0
           THEN IF LabelIndex(labelTemplates, sent.id) = 0
                THEN /\ labelResponse' = LabelAnswer(404, "Label template not found")
                     /\ currentTemplate' = <<sent>>
                     /\ UNCHANGED <<labelTemplates, nextLabelId, designer>>
                ELSE /\ labelTemplates' = updateLabelTemplate(labelTemplates, sent.id, LabelFields, BodyOf(sent))
                     /\ labelResponse' = LabelAnswer(200, "")
                     /\ currentTemplate' = <<sent>>
                     /\ designer' = IF setAsDefault
                                    THEN [designer EXCEPT !.pc = "setDefault", !.id = sent.id]
                                    ELSE designer
                     /\ UNCHANGED nextLabelId
           ELSE /\ nextLabelId < MaxLabels
                /\ nextLabelId' = newId
                /\ labelTemplates' = createLabelTemplate(labelTemplates, newId, BodyOf(sent))
                /\ labelResponse' = LabelAnswer(201, "")
                /\ currentTemplate' = <<[sent EXCEPT !.id = newId]>>
                /\ designer' = IF setAsDefault
                               THEN [designer EXCEPT !.pc = "setDefault", !.id = newId]
                               ELSE designer
    /\ UNCHANGED outsideLabels

\* saveTemplate (lines 1546-1551): POST /api/labels/:id/default for the
\* template just saved
DesignerSaveSetDefault ==
    /\ designer.pc = "setDefault"
    /\ IF LabelIndex(labelTemplates, designer.id) = 0
       THEN /\ labelResponse' = LabelAnswer(404, "Label template not found")
            /\ UNCHANGED labelTemplates
       ELSE /\ labelTemplates' = setDefaultLabelTemplate(labelTemplates, designer.id)
            /\ labelResponse' = LabelAnswer(200, "Default template set successfully")
    /\ designer' = [designer EXCEPT !.pc = "idle", !.id = 0]
    /\ UNCHANGED <<nextLabelId, currentTemplate, outsideLabels>>

\* autoSaveTemplate (lines 1637-1663), fired by the timers of lines 1600-1635:
\* PUT /api/labels/:id with the template as it is
autoSaveTemplate ==
    /\ designer.pc = "idle"
    /\ designer.hasUnsavedChanges
    /\ currentTemplate # <<>>
    /\ currentTemplate[1].id # 0
    /\ LET t == currentTemplate[1]
           sent == [t EXCEPT !.width = FieldOr(@, Num(60)), !.height = FieldOr(@, Num(40))]
       IN  IF LabelIndex(labelTemplates, t.id) = 0
           THEN /\ labelResponse' = LabelAnswer(404, "Label template not found")
                /\ UNCHANGED <<labelTemplates, designer>>
           ELSE /\ labelTemplates' = updateLabelTemplate(labelTemplates, t.id, LabelFields, BodyOf(sent))
                /\ labelResponse' = LabelAnswer(200, "")
                /\ designer' = [designer EXCEPT !.hasUnsavedChanges = FALSE]
    /\ UNCHANGED <<nextLabelId, currentTemplate, outsideLabels>>

\* duplicateTemplate (lines 1350-1386): GET /api/labels/:id, then POST
\* /api/labels with the copy
duplicateTemplate(id) ==
    /\ designer.pc = "idle"
    /\ LabelIndex(labelTemplates, id) # 0
    /\ LET t == labelTemplates[LabelIndex(labelTemplates, id)]
           copy == LabelBody(t.name \o CopySuffix, t.width, t.height, t.elements, FALSE)
       IN  IF Falsy(copy.width) \/ Falsy(copy.height)
           THEN /\ labelResponse' = LabelAnswer(400, "Name, width and height are required")
                /\ UNCHANGED <<labelTemplates, nextLabelId>>
           ELSE /\ nextLabelId < MaxLabels
                /\ nextLabelId' = nextLabelId + 1
                /\ labelTemplates' = createLabelTemplate(labelTemplates, nextLabelId + 1, copy)
                /\ labelResponse' = LabelAnswer(201, "")
    /\ UNCHANGED <<currentTemplate, designer, outsideLabels>>

InitLabels ==
    /\ BarcodesIdle
    /\ CustomersIdle
    /\ StockIdle
    /\ TemplateIdle
    /\ LabelsIdle

NextLabels ==
    \/ \E body \in LabelBodies : ApiCreateLabel(body)
    \/ \E id \in LabelIdsAsked, fields \in LabelPatches, body \in LabelBodies :
           ApiUpdateLabel(id, fields, body)
    \/ \E id \in LabelIdsAsked : ApiDeleteLabel(id)
    \/ \E id \in LabelIdsAsked : ApiSetDefaultLabel(id)
    \/ DesignerNew
    \/ \E id \in LabelIdsAsked : DesignerLoad(id)
    \/ \E x \in {10, 50} : DesignerDrop(x, 10)
    \/ \E index \in 1..MaxDropped : DesignerDeleteElement(index)
    \/ \E setAsDefault \in BOOLEAN :
           \E modalTemplateName \in {currentTemplate[i].name : i \in 1..Len(currentTemplate)} \cup {<<32>>} :
               DesignerSave(modalTemplateName, setAsDefault)
    \/ DesignerSaveSetDefault
    \/ autoSaveTemplate
    \/ \E id \in LabelIdsAsked : duplicateTemplate(id)

SpecLabels == InitLabels /\ [][NextLabels]_vars

\* C11: every stored label template passes validateTemplate.
C11_StoredTemplatesValid ==
    \A i \in 1..Len(labelTemplates) : validateTemplate(labelTemplates[i]).isValid

\* C12: a setDefaultLabelTemplate(id) call for a stored template leaves that
\* template with isDefault true and every other template with isDefault
\* false, whatever the flags were before.
C12_SetDefaultExclusive ==
    [][\A id \in LabelIdsAsked :
           (/\ LabelIndex(labelTemplates, id) # 0
            /\ ApiSetDefaultLabel(id) \/ (designer.id = id /\ DesignerSaveSetDefault))
           => \A i \in 1..Len(labelTemplates') :
                  labelTemplates'[i].isDefault <=> labelTemplates'[i].id = id]_vars

C12_Witness ==
    /\ labelResponse = LabelAnswer(200, "Default template set successfully")
    /\ Len(labelTemplates) = 2
    /\ labelTemplates[1].name = labelTemplates[2].name
    /\ Defaults(labelTemplates) = {2}

\* C13: at most one stored template has isDefault true.
C13_AtMostOneDefault == Cardinality(Defaults(labelTemplates)) <= 1

\* C14: a DELETE of the stored default template changes nothing and is
\* answered differently from a DELETE of a template that is not stored.
C14_DeleteDefaultRejectedDistinctly ==
    [][\A id \in LabelIdsAsked :
           (/\ LabelIndex(labelTemplates, id) # 0
            /\ labelTemplates[LabelIndex(labelTemplates, id)].isDefault
            /\ ApiDeleteLabel(id))
           => /\ labelTemplates' = labelTemplates
              /\ labelResponse' # LabelAnswer(404, "Label template not found")]_vars

(***************************************************************************)
(* Resizing an element in the designer (src/unnamed/part_002, lines        *)
(* 926-1001).  The pointer is a whole number of pixels from the canvas'    *)
(* top left corner; it leaves the canvas while the button is held, so it   *)
(* may be negative or beyond the canvas.                                   *)
(***************************************************************************)
canvasScale == 1
gridSize == 5
PixelsPerMm == 4
MinSize == 5

\* Math.round(q) for q = num / den with den > 0: halves round up
Round(num, den) == (2 * num + den) \div (2 * den)

\* Math.round((mouse / (4 * canvasScale)) / gridSize) * gridSize
Snap(mouse) == Round(mouse, PixelsPerMm * canvasScale * gridSize) * gridSize

\* a - b
JsSub(a, b) == IF a.nan \/ b.nan THEN NaN ELSE Num(a.v - b.v)

\* Math.max(a, b)
JsMax(a, b) == IF a.nan \/ b.nan THEN NaN ELSE Num(Max2(a.v, b.v))

Handles == {"se", "sw", "ne", "nw"}

\* The switch of lines 946-971: the new start and size along one axis, for
\* a handle that moves the far edge (far = TRUE: 'se' on both axes, 'ne' on
\* x, 'sw' on y) or the near edge of the element
ResizeAxis(far, start, size, mouse) ==
    IF far
    THEN [start |-> start,
          size |-> JsMax(Num(MinSize), JsSub(Num(Snap(mouse)), start))]
    ELSE LET newEdge == JsMax(Num(MinSize), Num(Snap(mouse)))
         IN  [start |-> newEdge,
              size |-> JsMax(Num(MinSize), JsSub(JsAdd(start, size), newEdge))]

\* Lines 976-985: if (newX + newWidth > canvasWidth) newWidth = canvasWidth - newX
KeepInsideMutant(axis, canvasSize) == axis
KeepInside(axis, canvasSize) ==
    IF JsGreater(JsAdd(axis.start, axis.size), canvasSize)
    THEN [axis EXCEPT !.size = JsSub(canvasSize, axis.start)]
    ELSE axis

\* resizeElement: the element data after one pointer move
resizeElement(element, handle, mouseX, mouseY, canvasWidth, canvasHeight) ==
    LET horizontal == KeepInside(ResizeAxis(handle \in {"se", "ne"}, element.x,
                                            element.width, mouseX), canvasWidth)
        vertical == KeepInside(ResizeAxis(handle \in {"se", "sw"}, element.y,
                                          element.height, mouseY), canvasHeight)
    IN  [element EXCEPT !.x = horizontal.start, !.width = horizontal.size,
                        !.y = vertical.start, !.height = vertical.size]

\* parseInt(canvas.dataset.widthMm) || 60, the data attribute having been
\* set from the template (lines 330-331, 441)
CanvasWidth(t) == FieldOr(t.width, Num(60))
CanvasHeight(t) == FieldOr(t.height, Num(40))

\* A pointer move while a handle of the element at index is held
\* (handleCanvasMouseMove, lines 758-764)
DesignerResize(index, handle, mouseX, mouseY) ==
    /\ designer.pc = "idle"
    /\ currentTemplate # <<>>
    /\ index \in 1..Len(currentTemplate[1].elements)
    /\ currentTemplate' =
         <<[currentTemplate[1] EXCEPT !.elements[index] =
              resizeElement(@, handle, mouseX, mouseY, CanvasWidth(currentTemplate[1]),
                            CanvasHeight(currentTemplate[1]))]>>
    /\ UNCHANGED <<labelTemplates, nextLabelId, labelResponse, designer>>
    /\ UNCHANGED outsideLabels

\* Pointer positions in pixels: left of the canvas, between grid lines,
\* on a grid line, a half step, beyond the canvas
MousePositions == {-20, 50, 160, 170, 400}

\* Elements loaded into the designer: the rectangle of the specification's
\* example, a freshly dropped text field, and an element stored without x
ResizableElements ==
    {Element("text", Num(10), Num(10), Num(20), Num(20)),
     createNewElement(0, 0),
     Element("text", Undefined, Num(10), Num(20), Num(20))}

CanvasSizes == {<<60, 40>>, <<100, 30>>}

InitResize ==
    /\ BarcodesIdle
    /\ CustomersIdle
    /\ StockIdle
    /\ TemplateIdle
    /\ labelTemplates = <<>>
    /\ nextLabelId = 1
    /\ labelResponse = NoLabelResponse
    /\ designer = DesignerIdle
    /\ exportedFile = <<>>
    /\ \E element \in ResizableElements, size \in CanvasSizes :
         currentTemplate = <<[NewTemplate EXCEPT !.width = Num(size[1]),
                                                 !.height = Num(size[2]),
                                                 !.elements = <<element>>]>>

NextResize ==
    \E handle \in Handles, mouseX \in MousePositions, mouseY \in MousePositions :
        DesignerResize(1, handle, mouseX, mouseY)

SpecResize == InitResize /\ [][NextResize]_vars

\* The multiple of the grid nearest to the pointer, the upper one of two
\* equally near
GridLines == {gridSize * k : k \in -2..21}
Distance(line, mouse) ==
    LET d == PixelsPerMm * canvasScale * line - mouse IN IF d < 0 THEN -d ELSE d
NearestGridLine(mouse) ==
    CHOOSE line \in GridLines :
        \A other \in GridLines :
            \/ Distance(line, mouse) < Distance(other, mouse)
            \/ Distance(line, mouse) = Distance(other, mouse) /\ line >= other

\* The size the claim C15 states for one axis
StatedSize(start, mouse) ==
    IF start.nan THEN NaN ELSE Num(Max2(MinSize, NearestGridLine(mouse) - start.v))

\* C15 as stated: a resize step with handle 'se' leaves x and y unchanged
\* and sets width = max(5, snap(pointerX) - x) and height = max(5,
\* snap(pointerY) - y)
C15_ResizeSE ==
    [][\A mouseX \in MousePositions, mouseY \in MousePositions :
          DesignerResize(1, "se", mouseX, mouseY)
          => LET before == currentTemplate[1].elements[1]
                 after == currentTemplate'[1].elements[1]
             IN  /\ after.x = before.x
                 /\ after.y = before.y
                 /\ after.width = StatedSize(before.x, mouseX)
                 /\ after.height = StatedSize(before.y, mouseY)]_vars

\* The size of C15 reduced to what is left of the canvas
FittedSize(start, mouse, canvasSize) ==
    LET stated == StatedSize(start, mouse)
    IN  IF stated.nan \/ start.v + stated.v <= canvasSize.v THEN stated
        ELSE Num(canvasSize.v - start.v)

\* C15, amended: a resize step with handle 'se' leaves x and y unchanged and
\* sets width = max(5, snap(pointerX) - x), reduced to canvasWidth - x when
\* x + width would exceed the canvas width, and height likewise; for rect
\* {10,10,20,20} and pointer (40,40) on the 60 x 40 canvas the result is
\* x=10, y=10, width=30, height=30
C15_ResizeSEWithinCanvas ==
    [][\A mouseX \in MousePositions, mouseY \in MousePositions :
          DesignerResize(1, "se", mouseX, mouseY)
          => LET before == currentTemplate[1].elements[1]
                 after == currentTemplate'[1].elements[1]
             IN  /\ after.x = before.x
                 /\ after.y = before.y
                 /\ after.width = FittedSize(before.x, mouseX, CanvasWidth(currentTemplate[1]))
                 /\ after.height = FittedSize(before.y, mouseY, CanvasHeight(currentTemplate[1]))
                 /\ (/\ before = Element("text", Num(10), Num(10), Num(20), Num(20))
                     /\ mouseX = 40 * PixelsPerMm /\ mouseY = 40 * PixelsPerMm
                     /\ currentTemplate[1].width = Num(60) /\ currentTemplate[1].height = Num(40))
                    => after = Element("text", Num(10), Num(10), Num(30), Num(30))]_vars

\* The rectangle of the example of C15 after its 'se' handle was dragged to
\* (40, 40) on the 60 x 40 canvas
C15_Witness ==
    /\ currentTemplate # <<>>
    /\ currentTemplate[1].width = Num(60)
    /\ currentTemplate[1].elements = <<Element("text", Num(10), Num(10), Num(30), Num(30))>>

(***************************************************************************)
(* Export and import of the current template (src/unnamed/part_002, lines  *)
(* 1795-1877).  The file holds JSON text: JSON.stringify writes null for   *)
(* NaN and leaves out a field that is undefined, JSON.parse reads null as  *)
(* null and finds no value for a field that was left out.                  *)
(***************************************************************************)
\* JSON.stringify of a number field
JsonToken(value) ==
    IF "undefined" \in DOMAIN value THEN [json |-> "omitted", v |-> 0]
    ELSE IF value.nan \/ "null" \in DOMAIN value THEN [json |-> "null", v |-> 0]
    ELSE [json |-> "number", v |-> value.v]

\* JSON.parse of a number field
JsonValue(token) ==
    IF token.json = "number" THEN Num(token.v)
    ELSE IF token.json = "null" THEN JsonNull
    ELSE Undefined

\* JSON.stringify(templateData, null, 2), the id having been deleted
JsonStringify(t) ==
    [name |-> t.name, width |-> JsonToken(t.width), height |-> JsonToken(t.height),
     elements |-> [i \in 1..Len(t.elements) |->
                     [t.elements[i] EXCEPT !.x = JsonToken(@), !.y = JsonToken(@),
                                           !.width = JsonToken(@),
                                           !.height = JsonToken(@)]],
     isDefault |-> t.isDefault]

\* JSON.parse(e.target.result)
JsonParse(text) ==
    [id |-> 0, name |-> text.name, width |-> JsonValue(text.width),
     height |-> JsonValue(text.height),
     elements |-> [i \in 1..Len(text.elements) |->
                     [text.elements[i] EXCEPT !.x = JsonValue(@), !.y = JsonValue(@),
                                              !.width = JsonValue(@),
                                              !.height = JsonValue(@)]],
     isDefault |-> text.isDefault]

\* templateData of exportTemplate (lines 1801-1811): the form shows the
\* name, width and height of the current template (lines 437-439)
exportTemplate(t) ==
    [t EXCEPT !.id = 0,
              !.width = FieldOr(FieldOr(t.width, Num(60)), t.width),
              !.height = FieldOr(FieldOr(t.height, Num(40)), t.height)]

\* exportTemplate: the download keeps the text; source remembers the
\* template it was made from
DesignerExport ==
    /\ designer.pc = "idle"
    /\ currentTemplate # <<>>
    /\ exportedFile' = <<[source |-> currentTemplate[1],
                          text |-> JsonStringify(exportTemplate(currentTemplate[1]))]>>
    /\ UNCHANGED <<currentTemplate, designer, templateVars, outsideDesigner>>

\* importTemplate (lines 1826-1877) with the exported file chosen
DesignerImport ==
    /\ designer.pc = "idle"
    /\ exportedFile # <<>>
    /\ LET templateData == JsonParse(exportedFile[1].text)
       IN  /\ template' = templateData
           /\ validation' = validateTemplate(templateData)
           /\ IF validateTemplate(templateData).isValid
              THEN /\ currentTemplate' = <<[templateData EXCEPT !.name = @ \o ImportedSuffix,
                                                                !.isDefault = FALSE]>>
                   /\ designer' = Changed
              ELSE UNCHANGED <<currentTemplate, designer>>
    /\ UNCHANGED <<exportedFile, outsideDesigner>>

\* Pointer positions of the export model: on the canvas and beyond it
ExportMousePositions == {160, 400}

InitExport ==
    /\ BarcodesIdle
    /\ CustomersIdle
    /\ StockIdle
    /\ TemplateIdle
    /\ labelTemplates = <<>>
    /\ nextLabelId = 1
    /\ labelResponse = NoLabelResponse
    /\ designer = DesignerIdle
    /\ exportedFile = <<>>
    /\ \E element \in ResizableElements :
         currentTemplate = <<[NewTemplate EXCEPT !.elements = <<element>>]>>

NextExport ==
    \/ \E handle \in Handles, mouseX \in ExportMousePositions, mouseY \in ExportMousePositions :
          DesignerResize(1, handle, mouseX, mouseY)
    \/ DesignerDeleteElement(1)
    \/ DesignerExport
    \/ DesignerImport

SpecExport == InitExport /\ [][NextExport]_vars

\* C16: importing an exported file gives validateTemplate the same isValid as
\* the template the file was exported from has, and an accepted import makes
\* the current template's element list identical to that template's
C16_ExportImportRoundTrip ==
    [][DesignerImport
       => LET original == exportedFile[1].source
          IN  /\ validation'.isValid = validateTemplate(original).isValid
              /\ validation'.isValid => currentTemplate'[1].elements = original.elements]_vars

(***************************************************************************)
(* JsonStorage.createCustomer for a request without a code (storage.ts,    *)
(* lines 248-313), one step per stretch between two awaits.  The calls run *)
(* on one thread; each await hands control to the other calls.             *)
(***************************************************************************)
customerMaxAttempts == 1000

\* createCustomer up to the first await of generateCustomerCode:
\* getNextCustomerCode has read the customers (lines 249-251, 302-303)
CreateBegin(c) ==
    /\ creating[c].pc = "idle"
    /\ creating' = [creating EXCEPT ![c] =
                      [pc |-> "next", code |-> JsonGetNextCustomerCode(customers),
                       attempts |-> 0, inUse |-> FALSE]]
    /\ UNCHANGED <<customers, nextCustomerId, customerResult, outsideCreate>>

\* Lines 304-311: attempts++, the throw, and getCustomerByCode(code) reading
\* the customers, up to the await in the loop condition
CreateCheck(c) ==
    /\ creating[c].pc = "next"
    /\ IF creating[c].attempts + 1 > customerMaxAttempts
       THEN /\ creating' = [creating EXCEPT ![c].pc = "failed"]
            /\ customerResult' = "error"
       ELSE /\ creating' = [creating EXCEPT ![c].pc = "checked",
                                            ![c].attempts = @ + 1,
                                            ![c].inUse = CodeInUse(customers, creating[c].code)]
            /\ UNCHANGED customerResult
    /\ UNCHANGED <<customers, nextCustomerId, outsideCreate>>

\* The loop goes round: getNextCustomerCode reads the customers again
CreateRetry(c) ==
    /\ creating[c].pc = "checked"
    /\ creating[c].inUse
    /\ creating' = [creating EXCEPT ![c].pc = "next",
                                    ![c].code = JsonGetNextCustomerCode(customers)]
    /\ UNCHANGED <<customers, nextCustomerId, customerResult, outsideCreate>>

\* The loop ends, generateCustomerCode returns and createCustomer pushes the
\* customer and saves (lines 254-270)
CreateAppend(c) ==
    /\ creating[c].pc = "checked"
    /\ ~creating[c].inUse
    /\ customers' = Append(customers, [id |-> nextCustomerId + 1, code |-> creating[c].code])
    /\ nextCustomerId' = nextCustomerId + 1
    /\ customerResult' = "created"
    /\ creating' = [creating EXCEPT ![c].pc = "done"]
    /\ UNCHANGED outsideCreate

\* Customers stored before the calls: none, "100005", "100005" and "AB"
StoredCustomers ==
    { <<>>,
      <<[id |-> 1, code |-> <<49, 48, 48, 48, 48, 53>>]>>,
      <<[id |-> 1, code |-> <<49, 48, 48, 48, 48, 53>>], [id |-> 2, code |-> <<65, 66>>]>> }

InitCreate ==
    /\ BarcodesIdle
    /\ StockIdle
    /\ TemplateIdle
    /\ LabelsIdle
    /\ storageKind = "json"
    /\ creating = NoCreateCalls
    /\ customers \in StoredCustomers
    /\ nextCustomerId = Len(customers)
    /\ customerResult = "none"

NextCreate ==
    \E c \in 1..MaxCreateCalls :
        \/ CreateBegin(c)
        \/ CreateCheck(c)
        \/ CreateRetry(c)
        \/ CreateAppend(c)

SpecCreate == InitCreate /\ [][NextCreate]_vars

\* C17: two createCustomer calls without a code against JsonStorage that
\* have both stored their customer have stored different codes
C17_RacingCreatesGetDifferentCodes ==
    \A c, d \in 1..MaxCreateCalls :
        (c # d /\ creating[c].pc = "done" /\ creating[d].pc = "done")
        => creating[c].code # creating[d].code

C19_BatchCodesDistinct ==
    /\ \A i \in 1..Len(movements) : NoDuplicates(movements[i].barcodes)
    /\ \A s \in Slots : NoDuplicates(req[s].newBarcodes)

(***************************************************************************)
(* generateUniqueBarcode (barcodeUtils.ts, lines 33-72) draw by draw.  The *)
(* function is synchronous, so the file does not change during a call and  *)
(* every round's snapshot is CodesOf(loadBarcodes).                        *)
(***************************************************************************)
\* Lines 37-45: the first round begins
DrawStart ==
    /\ drawing.pc = "idle"
    /\ drawing' = [NotDrawing EXCEPT !.pc = "round"]
    /\ UNCHANGED outsideDrawing

\* One pass of the do/while body and its condition (lines 46-57): draw the
\* candidate, attempts++, throw when attempts > maxAttempts, else go round
\* again when the candidate is in use and return it when it is not
Draw(code) ==
    /\ drawing.pc = "round"
    /\ drawing' = [drawing EXCEPT
                     !.code = code,
                     !.attempts = @ + 1,
                     !.pc = IF drawing.attempts + 1 > maxAttempts THEN "thrown"
                            ELSE IF code \in CodesOf(loadBarcodes) THEN "round"
                            ELSE "returned"]
    /\ UNCHANGED outsideDrawing

\* The catch (lines 60-68): the last round throws the error on, an earlier
\* one calls setTimeout(() => {}, waitTime), which adds a timer and returns
\* at once, and starts the next round with a fresh snapshot and attempts = 0
DrawCatch ==
    /\ drawing.pc = "thrown"
    /\ drawing' = IF drawing.retry = maxRetries - 1
                  THEN [drawing EXCEPT !.pc = "failed"]
                  ELSE [drawing EXCEPT !.pc = "round", !.retry = @ + 1, !.attempts = 0,
                                       !.timers = @ + 1]
    /\ UNCHANGED outsideDrawing

\* waitTime has elapsed for one timer and its empty callback runs: the event
\* loop runs callbacks only when no synchronous call is on the stack
TimerElapses ==
    /\ drawing.pc \in {"returned", "failed"}
    /\ drawing.timers > 0
    /\ drawing' = [drawing EXCEPT !.timers = @ - 1]
    /\ UNCHANGED outsideDrawing

\* A file with a record for every code that can be drawn
RECURSIVE RecordsOf(_)
RecordsOf(codes) ==
    IF codes = {} THEN <<>>
    ELSE LET code == CHOOSE c \in codes : TRUE
         IN  <<SessionRecord(code)>> \o RecordsOf(codes \ {code})

DrawFiles == {<<>>, <<SessionRecord(100000)>>, RecordsOf(Candidates)}

InitDraw ==
    /\ LabelsIdle
    /\ CustomersIdle
    /\ TemplateIdle
    /\ StockIdle
    /\ drawing = NotDrawing
    /\ barcodeFile \in DrawFiles
    /\ initialCodes = CodesOf(barcodeFile)
    /\ returned = <<>>
    /\ pending = <<>>
    /\ genError = FALSE

NextDraw ==
    \/ DrawStart
    \/ \E code \in Candidates : Draw(code)
    \/ DrawCatch
    \/ TimerElapses

SpecDraw == InitDraw /\ [][NextDraw]_vars

\* C20: generateUniqueBarcode draws at most 1000 candidates in a round
\* (attempts counts the draws of the round), runs at most 3 rounds, and when
\* every candidate it can draw is in use it ends failed, not returned
C20_BoundedRetries ==
    /\ drawing.attempts <= 1000
    /\ drawing.retry < 3
    /\ Candidates \subseteq CodesOf(barcodeFile) => drawing.pc # "returned"

\* C21: a round after a failed round runs only once the backoff wait of the
\* failed round has elapsed (no timer of the call is still waiting)
C21_NextRoundAfterBackoff ==
    (drawing.pc = "round" /\ drawing.retry > 0) => drawing.timers = 0

(***************************************************************************)
(* validateTemplate and the geometry it is meant to guarantee              *)
(* (SpecTemplate)                                                          *)
(***************************************************************************)
\* value is a number (not missing, not NaN) and lo <= value
NumberAtLeast(value, lo) == ~value.nan /\ value.v >= lo

\* C22: a template that validateTemplate found valid has, for every element,
\* numbers x >= 0, y >= 0, width > 0, height > 0 with x + width <=
\* template.width and y + height <= template.height
C22_ValidMeansInsideLabel ==
    (validation.done /\ validation.isValid) =>
        \A i \in 1..Len(template.elements) :
            LET element == template.elements[i]
            IN  /\ NumberAtLeast(element.x, 0)
                /\ NumberAtLeast(element.y, 0)
                /\ NumberAtLeast(element.width, 1)
                /\ NumberAtLeast(element.height, 1)
                /\ ~template.width.nan /\ element.x.v + element.width.v <= template.width.v
                /\ ~template.height.nan /\ element.y.v + element.height.v <= template.height.v

(***************************************************************************)
(* Edges and sizes under resizing (SpecResize)                             *)
(***************************************************************************)
RightEdge(element) == JsAdd(element.x, element.width)
BottomEdge(element) == JsAdd(element.y, element.height)

\* C23: a resize step keeps the edge opposite to the dragged handle fixed
\* for every pointer position: 'sw' the right edge, 'ne' the bottom edge,
\* 'nw' both
C23_OppositeEdgeFixed ==
    [][\A mouseX \in MousePositions, mouseY \in MousePositions :
          LET before == currentTemplate[1].elements[1]
              after == currentTemplate'[1].elements[1]
          IN  /\ DesignerResize(1, "sw", mouseX, mouseY)
                 => RightEdge(after) = RightEdge(before)
              /\ DesignerResize(1, "ne", mouseX, mouseY)
                 => BottomEdge(after) = BottomEdge(before)
              /\ DesignerResize(1, "nw", mouseX, mouseY)
                 => /\ RightEdge(after) = RightEdge(before)
                    /\ BottomEdge(after) = BottomEdge(before)]_vars

\* x, y, width and height of the element are numbers
HasNumbers(element) ==
    ~element.x.nan /\ ~element.y.nan /\ ~element.width.nan /\ ~element.height.nan

\* C24: after any resize step of an element with numeric position and size,
\* with any handle and pointer position, the element's width and height are
\* at least the minimum size of 5 mm
C24_MinimumSizeKept ==
    [][\A handle \in Handles, mouseX \in MousePositions, mouseY \in MousePositions :
          (HasNumbers(currentTemplate[1].elements[1])
           /\ DesignerResize(1, handle, mouseX, mouseY))
          => LET after == currentTemplate'[1].elements[1]
             IN  /\ NumberAtLeast(after.width, 5)
                 /\ NumberAtLeast(after.height, 5)]_vars

(***************************************************************************)
(* Moving an element in the designer (src/unnamed/part_002, lines          *)
(* 767-808).  pixelX and pixelY are the pointer's position less the drag   *)
(* offset, in whole pixels from the canvas' top left corner.               *)
(***************************************************************************)
\* Math.min(a, b)
JsMin(a, b) == IF a.nan \/ b.nan THEN NaN ELSE Num(IF a.v < b.v THEN a.v ELSE b.v)

\* Math.max(0, Math.min(mm, canvasSize - (size || fallback))) (lines 786-787)
KeepPosition(mm, size, fallback, canvasSize) ==
    JsMax(Num(0), JsMin(Num(mm), JsSub(canvasSize, FieldOr(size, Num(fallback)))))

\* moveElement: the element data after one pointer move
moveElement(element, pixelX, pixelY, canvasWidth, canvasHeight) ==
    [element EXCEPT !.x = KeepPosition(Snap(pixelX), element.width, 20, canvasWidth),
                    !.y = KeepPosition(Snap(pixelY), element.height, 10, canvasHeight)]

\* A pointer move while the element at index is dragged
\* (handleCanvasMouseMove, lines 758-760)
DesignerMove(index, pixelX, pixelY) ==
    /\ designer.pc = "idle"
    /\ currentTemplate # <<>>
    /\ index \in 1..Len(currentTemplate[1].elements)
    /\ currentTemplate' =
         <<[currentTemplate[1] EXCEPT !.elements[index] =
              moveElement(@, pixelX, pixelY, CanvasWidth(currentTemplate[1]),
                          CanvasHeight(currentTemplate[1]))]>>
    /\ designer' = Changed
    /\ UNCHANGED <<labelTemplates, nextLabelId, labelResponse>>
    /\ UNCHANGED outsideLabels

\* Positions the dragged element is taken to, in pixels: left of the canvas,
\* between grid lines, on the canvas, beyond it
MovePositions == {-20, 50, 160, 400}

\* Pointer positions of the resizes between moves: on a grid line of the
\* canvas and at 100 mm
MoveResizePositions == {160, 400}

NextMove ==
    \/ \E pixelX \in MovePositions, pixelY \in MovePositions : DesignerMove(1, pixelX, pixelY)
    \/ \E handle \in Handles, mouseX \in MoveResizePositions, mouseY \in MoveResizePositions :
          DesignerResize(1, handle, mouseX, mouseY)

SpecMove == InitResize /\ [][NextMove]_vars

\* clamp(value, lo, hi)
Clamp(value, lo, hi) == Max2(lo, IF value < hi THEN value ELSE hi)

\* C25: after a move step of an element with numeric position and size,
\* x = clamp(snapped x, 0, canvasWidth - width) and y = clamp(snapped y, 0,
\* canvasHeight - height); an element that fits the canvas lies inside it and
\* a coordinate in which it does not fit is 0
C25_MoveClampsPosition ==
    [][\A pixelX \in MovePositions, pixelY \in MovePositions :
          (HasNumbers(currentTemplate[1].elements[1]) /\ DesignerMove(1, pixelX, pixelY))
          => LET before == currentTemplate[1].elements[1]
                 after == currentTemplate'[1].elements[1]
                 canvasWidth == CanvasWidth(currentTemplate[1]).v
                 canvasHeight == CanvasHeight(currentTemplate[1]).v
             IN  /\ after.x = Num(Clamp(NearestGridLine(pixelX), 0, canvasWidth - before.width.v))
                 /\ after.y = Num(Clamp(NearestGridLine(pixelY), 0, canvasHeight - before.height.v))
                 /\ IF before.width.v <= canvasWidth
                    THEN 0 <= after.x.v /\ after.x.v + after.width.v <= canvasWidth
                    ELSE after.x.v = 0
                 /\ IF before.height.v <= canvasHeight
                    THEN 0 <= after.y.v /\ after.y.v + after.height.v <= canvasHeight
                    ELSE after.y.v = 0]_vars

(***************************************************************************)
(* The barcode store when a read of data/barcodes.json can fail            *)
(* (barcodeUtils.ts, lines 10-18, 94-122, 170-180).  loadBarcodes catches  *)
(* the error of readFileSync or JSON.parse and returns [].                 *)
(***************************************************************************)
\* What loadBarcodes() can return for the file
LoadOutcomes(file) == {file, <<>>}

\* markBarcodeAsUsed(code) on what loadBarcodes returned: the list to save,
\* or <<>> with found = FALSE when the code is not in it
markBarcodeAsUsed(barcodes, code) ==
    IF \E i \in 1..Len(barcodes) : barcodes[i].code = code
    THEN LET barcodeIndex == CHOOSE i \in 1..Len(barcodes) :
                                /\ barcodes[i].code = code
                                /\ \A j \in 1..(i - 1) : barcodes[j].code # code
         IN  [found |-> TRUE, barcodes |-> [barcodes EXCEPT ![barcodeIndex].isUsed = TRUE]]
    ELSE [found |-> FALSE, barcodes |-> <<>>]

\* One unit of a batch: generateUniqueBarcode() and createBarcodeRecord(),
\* each with its own read of the file
StoreMint(quantity) ==
    /\ Len(barcodeFile) < MaxStored
    /\ \E snapshot \in LoadOutcomes(barcodeFile), barcodes \in LoadOutcomes(barcodeFile) :
         \E code \in generateUniqueBarcodeReturns(snapshot) :
            barcodeFile' = createBarcodeRecord(barcodes, code, "p1", "m0", "w1", "none",
                                               quantity, "adet")
    /\ UNCHANGED <<initialCodes, returned, pending, genError, outsideBarcode>>

\* markBarcodeAsUsed(code)
StoreMarkUsed(code) ==
    /\ \E barcodes \in LoadOutcomes(barcodeFile) :
         LET marked == markBarcodeAsUsed(barcodes, code)
         IN  barcodeFile' = IF marked.found THEN marked.barcodes ELSE barcodeFile
    /\ UNCHANGED <<initialCodes, returned, pending, genError, outsideBarcode>>

InitStore ==
    /\ LabelsIdle
    /\ CustomersIdle
    /\ TemplateIdle
    /\ StockIdle
    /\ BarcodesIdle

NextStore ==
    \/ \E quantity \in 1..2 : StoreMint(quantity)
    \/ \E code \in Candidates : StoreMarkUsed(code)

SpecStore == InitStore /\ [][NextStore]_vars

\* record is kept by the file with every field but isUsed unchanged
KeptIn(record, file) ==
    \E j \in 1..Len(file) : [file[j] EXCEPT !.isUsed = record.isUsed] = record

\* C26: a persisted barcode record stays in the store, with everything but
\* isUsed unchanged, across markBarcodeAsUsed, createBarcodeRecord for other
\* units and failed reads of the file
C26_PersistedRecordsStay ==
    [][\A i \in 1..Len(barcodeFile) : KeptIn(barcodeFile[i], barcodeFile')]_vars


(***************************************************************************)
(* The shelf checks and the length list of POST /api/stock/entry           *)
(***************************************************************************)
\* The request names a shelf: shelfId is present and not blank
ShelfSupplied(body) == body.shelfId # Null /\ body.shelfId \notin {"", " "}

\* The request reached the shelf checks: its product and its warehouse exist
ReachesShelfChecks(s) ==
    /\ req[s].pc = "product"
    /\ req[s].found
    /\ FindWarehouse(req[s].body.warehouseId) # {}

\* C27: an entry without a shelf to a warehouse that has a shelf system with
\* at least one shelf is answered SHELF_REQUIRED, and an entry naming a shelf
\* that is not one of its warehouse's shelves is answered SHELF_NOT_FOUND,
\* also when the warehouse has no shelves at all.
C27_ShelfChecked ==
    [][\A s \in Slots :
          (ReachesShelfChecks(s) /\ EntryValidate(s)) =>
              LET body == req[s].body
                  w == CHOOSE x \in FindWarehouse(body.warehouseId) : TRUE
              IN  /\ (w.hasShelfSystem /\ w.shelves # {} /\ ~ShelfSupplied(body))
                         => req'[s].errorCode = "SHELF_REQUIRED"
                  /\ (ShelfSupplied(body) /\ body.shelfId \notin w.shelves)
                         => req'[s].errorCode = "SHELF_NOT_FOUND"]_vars

\* The list of a length entry has no length to record, or holds a number
\* that is zero or negative
BadLengths(items) ==
    \/ items = <<>>
    \/ \E i \in 1..Len(items) : ~items[i].nan /\ items[i].v <= 0
    \/ \A i \in 1..Len(items) : items[i].nan

\* C28: a length entry whose list is empty, holds a zero or negative length,
\* or holds nothing numeric is rejected, and creates no movement and no
\* barcode; entries that are not numbers are the only ones dropped silently.
C28_BadLengthsRejected ==
    [][\A s \in Slots :
          (/\ req[s].pc = "product"
           /\ req[s].body.unit = "metre"
           /\ req[s].body.meters.kind = "array"
           /\ BadLengths(req[s].body.meters.items)
           /\ EntryValidate(s)) =>
              /\ req'[s].pc = "done"
              /\ req'[s].status \in {400, 404}
              /\ movements' = movements
              /\ barcodeFile' = barcodeFile]_vars


(***************************************************************************)
(* The next customer code among codes outside the six-digit scheme         *)
(***************************************************************************)
IsSixDigitCustomer(customer) == IsSixDigits(customer.code)

\* The customers whose code follows the scheme
SixDigitCustomers(cs) == SelectSeq(cs, IsSixDigitCustomer)

\* C29: codes that are not exactly six digits are ignored when the next code
\* is computed: in JsonStorage and in DatabaseStorage the next code is the
\* one computed from the six-digit codes alone, max(those, 99999) + 1.
C29_OtherCodesIgnored ==
    /\ getNextCustomerCode(storageKind, customers)
           = getNextCustomerCode(storageKind, SixDigitCustomers(customers))
    /\ parseInt(getNextCustomerCode(storageKind, customers))
           = MaxOf(SixDigitValues(customers), 99999) + 1

\* C30: a code generateCustomerCode returns is a string of exactly six
\* digits, whatever customers are stored, 999999 included.
C30_GeneratedCodeHasSixDigits ==
    LET code == generateCustomerCode(storageKind, customers)
    IN  code # <<>> => IsSixDigits(code)

====
